---- MODULE Spec2Model ----
(***************************************************************************)
(* A model of the TibiaSprites harvest scripts:                            *)
(*   download_tibiawiki_assets.py   (run_group, the bosses/creatures       *)
(*                                   driver, with its helpers)             *)
(*   download_fandom_mounts.py      (main, the mounts driver)              *)
(*   download_fandom_achievements.py (find_achievements_table, parse_int,  *)
(*                                   main's row loop)                      *)
(*                                                                         *)
(* Text is a sequence of one-character strings, so that strip, split,      *)
(* lower and upper are computed, not assumed.  None is the empty tuple     *)
(* and a present value v is <<v>>, so that None and 0 can be compared.     *)
(***************************************************************************)
EXTENDS Integers, Sequences, FiniteSets, TLC

VARIABLES
    pc,                             \* where the script under study stands
    nm_in, nm_out,                  \* build_fandom_gif_file: argument, result
    pi_in, pi_out,                  \* parse_int: argument, result
    g_page,                         \* the page of page_urls that is fetched next
    g_index,                        \* index, a dict in insertion order: its rows
    g_order,                        \* the sorted items of the mirror loop, as positions in g_index
    g_k,                            \* the position of the mirror loop in g_order
    g_files,                        \* the image files of the group's directory: path -> content
    g_indexfile,                    \* index.json as this run wrote it: None or the list
    g_stale,                        \* the names the index.json of the run before lists
                                    \* with an empty sourceUrl
    g_downloaded, g_skipped,        \* the counters of the run
    g_last,                         \* what the last turn of the mirror loop was given and did
    m_wiki,                         \* mounts: title -> the page and the download response
    m_run,                          \* the number of this run of the script
    m_titles,                       \* titles, sorted
    m_i,                            \* the position of the loop in titles
    m_out,                          \* out_items
    m_files,                        \* the files of OUT_DIR: path -> content
    m_indexes,                      \* index.json and index.csv as each run wrote them
    m_downloads,                    \* the calls of download in this run
    a_doc,                          \* achievements: the tables of the parsed page
    a_found,                        \* None before the table is looked for, then the
                                    \* table found (table 0: none) and its headers
    a_r,                            \* the row of the table the loop is at
    a_out,                          \* out
    a_file,                         \* achievements.json: None or the list written
    f_in, f_out                     \* fetch_html: the URL and the answers, the outcome

varsName == <<nm_in, nm_out>>
varsInt  == <<pi_in, pi_out>>
varsGroup ==
    <<g_page, g_index, g_order, g_k, g_files, g_indexfile, g_stale, g_downloaded,
      g_skipped, g_last>>
varsMounts == <<m_wiki, m_run, m_titles, m_i, m_out, m_files, m_indexes, m_downloads>>
varsAch == <<a_doc, a_found, a_r, a_out, a_file>>
varsFetch == <<f_in, f_out>>
vars == <<pc, varsName, varsInt, varsGroup, varsMounts, varsAch, varsFetch>>

(***************************************************************************)
(* Bounds of the model.                                                    *)
(***************************************************************************)
MaxNameLen == 4
MaxIntLen == 4
MaxPages == 2
MaxTitles == 2
MaxMountRuns == 2
MaxTables == 2
MaxDataRows == 2
MaxRowsPerPage == 2

(***************************************************************************)
(* Python values.                                                          *)
(***************************************************************************)
None == <<>>
Some(v) == <<v>>

LowerLetters ==
    <<"a","b","c","d","e","f","g","h","i","j","k","l","m",
      "n","o","p","q","r","s","t","u","v","w","x","y","z">>
UpperLetters ==
    <<"A","B","C","D","E","F","G","H","I","J","K","L","M",
      "N","O","P","Q","R","S","T","U","V","W","X","Y","Z">>

\* str.lower() and str.upper() on one character
LowerChar(c) ==
    IF \E i \in 1..Len(UpperLetters) : UpperLetters[i] = c
    THEN LowerLetters[CHOOSE i \in 1..Len(UpperLetters) : UpperLetters[i] = c]
    ELSE c
UpperChar(c) ==
    IF \E i \in 1..Len(LowerLetters) : LowerLetters[i] = c
    THEN UpperLetters[CHOOSE i \in 1..Len(LowerLetters) : LowerLetters[i] = c]
    ELSE c
Lower(s) == [i \in 1..Len(s) |-> LowerChar(s[i])]
Upper(s) == [i \in 1..Len(s) |-> UpperChar(s[i])]

\* characters matched by \s and stripped by str.strip()
IsSpace(c) == c = " "

RECURSIVE LStrip(_)
LStrip(s) == IF s # <<>> /\ IsSpace(Head(s)) THEN LStrip(Tail(s)) ELSE s
RECURSIVE RStrip(_)
RStrip(s) ==
    IF s # <<>> /\ IsSpace(s[Len(s)]) THEN RStrip(SubSeq(s, 1, Len(s) - 1)) ELSE s
\* str.strip()
Strip(s) == RStrip(LStrip(s))

\* str.split(sep) for a one-character sep: empty pieces are kept
RECURSIVE SplitAcc(_, _, _)
SplitAcc(s, sep, cur) ==
    IF s = <<>> THEN <<cur>>
    ELSE IF Head(s) = sep THEN <<cur>> \o SplitAcc(Tail(s), sep, <<>>)
    ELSE SplitAcc(Tail(s), sep, Append(cur, Head(s)))
SplitOn(s, sep) == SplitAcc(s, sep, <<>>)

\* str.split() without argument: runs of whitespace separate, no empty pieces
RECURSIVE SplitWsAcc(_, _)
SplitWsAcc(s, cur) ==
    IF s = <<>> THEN (IF cur = <<>> THEN <<>> ELSE <<cur>>)
    ELSE IF IsSpace(Head(s))
         THEN (IF cur = <<>> THEN <<>> ELSE <<cur>>) \o SplitWsAcc(Tail(s), <<>>)
         ELSE SplitWsAcc(Tail(s), Append(cur, Head(s)))
SplitWs(s) == SplitWsAcc(s, <<>>)

\* sep.join(parts)
RECURSIVE Join(_, _)
Join(parts, sep) ==
    IF parts = <<>> THEN <<>>
    ELSE IF Len(parts) = 1 THEN parts[1]
    ELSE parts[1] \o sep \o Join(Tail(parts), sep)

\* s.replace(a, b) for one-character a
Replace(s, a, b) == [i \in 1..Len(s) |-> IF s[i] = a THEN b ELSE s[i]]

\* re.sub(r"\s+", " ", s)
RECURSIVE CollapseWs(_)
CollapseWs(s) ==
    IF s = <<>> THEN <<>>
    ELSE IF IsSpace(Head(s))
         THEN <<" ">> \o CollapseWs(LStrip(s))
         ELSE <<Head(s)>> \o CollapseWs(Tail(s))

\* all texts over an alphabet, of length at most n
TextsUpTo(alphabet, n) == UNION {[1..k -> alphabet] : k \in 0..n}

(***************************************************************************)
(* download_tibiawiki_assets.py: build_fandom_gif_file                     *)
(***************************************************************************)
LOWER ==
    { <<"a">>, <<"a","n">>, <<"t","h","e">>, <<"o","f">>, <<"i","n">>,
      <<"o","n">>, <<"t","o">>, <<"a","n","d">>, <<"w","i","t","h">>,
      <<"f","r","o","m">> }

GifExt == <<".","g","i","f">>

\* mutant of CapSeg: the tail of the segment keeps its case
CapSeg_KeepTail(seg) ==
    IF seg = <<>> THEN seg ELSE <<UpperChar(seg[1])>> \o SubSeq(seg, 2, Len(seg))

\* seg[:1].upper() + seg[1:].lower(), an empty segment kept as it is
CapSeg(seg) ==
    IF seg = <<>> THEN seg
    ELSE <<UpperChar(seg[1])>> \o Lower(SubSeq(seg, 2, Len(seg)))

\* the body of the loop over enumerate(words)
OutWord(i, w) ==
    LET segs == SplitOn(w, "-")
        segs2 == [k \in 1..Len(segs) |-> CapSeg(segs[k])]
        out == Join(segs2, <<"-">>)
    IN  IF i > 1 /\ Lower(out) \in LOWER THEN Lower(out) ELSE out

\* the stem s2 (the returned name without ".gif")
GifStem(name) ==
    LET s == Join(SplitWs(Strip(name)), <<" ">>)
        words == SplitOn(s, " ")
        out_words == [i \in 1..Len(words) |-> OutWord(i, words[i])]
    IN  Replace(Join(out_words, <<" ">>), " ", "_")

build_fandom_gif_file(name) ==
    IF name = <<>> THEN None ELSE Some(GifStem(name) \o GifExt)

(***************************************************************************)
(* download_fandom_achievements.py: parse_int                              *)
(***************************************************************************)
Digits == <<"0","1","2","3","4","5","6","7","8","9">>
IsDigit(c) == \E d \in 1..Len(Digits) : Digits[d] = c
DigitVal(c) == (CHOOSE d \in 1..Len(Digits) : Digits[d] = c) - 1

\* the end of the longest run of digits starting at i (i - 1 when there is none)
RECURSIVE DigitRunEnd(_, _)
DigitRunEnd(s, i) ==
    IF i <= Len(s) /\ IsDigit(s[i]) THEN DigitRunEnd(s, i + 1) ELSE i - 1

\* int() of a text of digits
RECURSIVE DecVal(_)
DecVal(ds) ==
    IF ds = <<>> THEN 0 ELSE 10 * DecVal(SubSeq(ds, 1, Len(ds) - 1)) + DigitVal(ds[Len(ds)])

\* the match of -?\d+ anchored at i: <<first, last>> or None
MatchAt(s, i) ==
    IF i <= Len(s) /\ s[i] = "-" /\ DigitRunEnd(s, i + 1) >= i + 1
    THEN Some(<<i, DigitRunEnd(s, i + 1)>>)
    ELSE IF DigitRunEnd(s, i) >= i
         THEN Some(<<i, DigitRunEnd(s, i)>>)
         ELSE None

\* re.search: the match at the leftmost position that has one
RECURSIVE SearchFrom(_, _)
SearchFrom(s, i) ==
    IF i > Len(s) THEN None
    ELSE IF MatchAt(s, i) # None THEN MatchAt(s, i)
    ELSE SearchFrom(s, i + 1)

\* int(m.group(0))
IntOf(t) ==
    IF t # <<>> /\ t[1] = "-" THEN 0 - DecVal(Tail(t)) ELSE DecVal(t)

\* mutant of parse_int: 0 instead of None when nothing matches
parse_int_Zero(s) ==
    LET m == SearchFrom(s, 1)
    IN  IF m # None THEN Some(IntOf(SubSeq(s, m[1][1], m[1][2]))) ELSE Some(0)

parse_int(s) ==
    LET m == SearchFrom(s, 1)
    IN  IF m # None THEN Some(IntOf(SubSeq(s, m[1][1], m[1][2]))) ELSE None

(***************************************************************************)
(* download_tibiawiki_assets.py: the helpers of run_group                  *)
(***************************************************************************)
\* code points order the characters that names are made of (str comparison)
OrdChars ==
    <<" ", "!", "'", "(", ")", "*", "-", ".">> \o Digits \o <<":", "?">> \o UpperLetters
        \o <<"[", "]", "_">> \o LowerLetters
CharOrd(c) == CHOOSE i \in 1..Len(OrdChars) : OrdChars[i] = c

\* a < b for two texts
RECURSIVE TextLess(_, _)
TextLess(a, b) ==
    IF b = <<>> THEN FALSE
    ELSE IF a = <<>> THEN TRUE
    ELSE IF Head(a) = Head(b) THEN TextLess(Tail(a), Tail(b))
    ELSE CharOrd(Head(a)) < CharOrd(Head(b))

\* sorted(index.items(), key=lambda x: x[0].lower()): a stable sort of the
\* rows of the index, given here as the positions of the rows in the order
\* in which the loop visits them
SortedOrder(index) ==
    LET Before(i, j) ==
            \/ TextLess(Lower(index[i].name), Lower(index[j].name))
            \/ (Lower(index[i].name) = Lower(index[j].name) /\ i < j)
        Rank(i) == Cardinality({j \in 1..Len(index) : Before(j, i)}) + 1
    IN  [r \in 1..Len(index) |-> CHOOSE i \in 1..Len(index) : Rank(i) = r]

\* the status of a refusal
Forbidden == 403

\* Response.raise_for_status raises for the statuses 400..599
raise_for_status(status) == status >= 400 /\ status < 600

\* the paths of the page URLs, as their pieces between slashes
PagePaths ==
    { <<"", "wiki", "Bosses">>,
      <<"", "wiki", "Anf%C3%ADbios">>,
      <<"", "wiki", "Plantas_(Criatura)">> }

\* path.split("/wiki/")[-1], from piece i on: start is the piece after the
\* last "/wiki/" found so far
RECURSIVE AfterWiki(_, _, _)
AfterWiki(segs, i, start) ==
    IF i >= Len(segs) THEN SubSeq(segs, start, Len(segs))
    ELSE IF segs[i] = "wiki" THEN AfterWiki(segs, i + 2, i + 1)
    ELSE AfterWiki(segs, i + 1, start)

\* urllib.parse.unquote of one piece: the %XX escapes become the character
unquote(seg) ==
    IF seg = "Anf%C3%ADbios" THEN "Anf(U+00ED)bios" ELSE seg

\* the page title of the fallback request
TitleOf(path) == [k \in 1..Len(AfterWiki(path, 2, 1)) |-> unquote(AfterWiki(path, 2, 1)[k])]

NoTitle == <<>>
PageHtml == "<table>page</table>"
ParsedHtml == "<div>parsed</div>"

\* what scraper.get(url) gives: it raises (network error) or it returns a
\* response with a status and a text
PrimaryAnswers ==
    { [kind |-> "net_error", status |-> 0, text |-> ""] }
    \cup [kind : {"response"}, status : {200}, text : {PageHtml, ""}]
    \cup [kind : {"response"}, status : {Forbidden, 404, 500}, text : {"error page"}]

\* the JSON of the parse API: no JSON at all, or an object in which "parse",
\* "text" and "*" are absent, null or there
ApiJsons ==
    { [valid |-> FALSE, parse |-> "absent", text |-> "absent", star |-> "absent"],
      [valid |-> TRUE, parse |-> "absent", text |-> "absent", star |-> "absent"],
      [valid |-> TRUE, parse |-> "null", text |-> "absent", star |-> "absent"],
      [valid |-> TRUE, parse |-> "object", text |-> "absent", star |-> "absent"],
      [valid |-> TRUE, parse |-> "object", text |-> "null", star |-> "absent"],
      [valid |-> TRUE, parse |-> "object", text |-> "object", star |-> "absent"],
      [valid |-> TRUE, parse |-> "object", text |-> "object", star |-> ""],
      [valid |-> TRUE, parse |-> "object", text |-> "object", star |-> ParsedHtml] }

NoJson == [valid |-> FALSE, parse |-> "absent", text |-> "absent", star |-> "absent"]

\* what scraper.get(API_URL, params) gives
ApiAnswers ==
    { [kind |-> "net_error", status |-> 0, json |-> NoJson] }
    \cup [kind : {"response"}, status : {Forbidden, 500}, json : {NoJson}]
    \cup [kind : {"response"}, status : {200}, json : ApiJsons]

\* (data.get("parse", {}).get("text", {}) or {}).get("*"): raised when the
\* body is no JSON or "parse" is null, else the string or None
ParsedText(json) ==
    IF ~json.valid \/ json.parse = "null" THEN [raised |-> TRUE, html |-> None]
    ELSE IF json.parse = "absent" \/ json.text # "object" \/ json.star = "absent"
         THEN [raised |-> FALSE, html |-> None]
         ELSE [raised |-> FALSE, html |-> Some(json.star)]

\* the answers of the wiki to one call of fetch_html
FetchAnswers == [path : PagePaths, primary : PrimaryAnswers, api : ApiAnswers]

Raised(api_called, page) ==
    [raised |-> TRUE, html |-> None, api_called |-> api_called, page |-> page]
Returned(html, api_called, page) ==
    [raised |-> FALSE, html |-> Some(html), api_called |-> api_called, page |-> page]

\* mutant of fetch_html: a fallback without HTML gives the empty text
fetch_html_EmptyFallback(ans) ==
    IF ans.primary.kind = "net_error" THEN Raised(FALSE, NoTitle)
    ELSE IF ans.primary.status # Forbidden
         THEN IF raise_for_status(ans.primary.status) THEN Raised(FALSE, NoTitle)
              ELSE Returned(ans.primary.text, FALSE, NoTitle)
    ELSE IF ans.api.kind = "net_error" \/ raise_for_status(ans.api.status)
            \/ ParsedText(ans.api.json).raised
         THEN Raised(TRUE, TitleOf(ans.path))
    ELSE IF ParsedText(ans.api.json).html = None
         THEN Returned("", TRUE, TitleOf(ans.path))
         ELSE Returned(ParsedText(ans.api.json).html[1], TRUE, TitleOf(ans.path))

\* fetch_html: the text of the page itself unless it answers 403; then the
\* HTML the parse API renders for the page title; every exception leaves
\* the function
fetch_html(ans) ==
    IF ans.primary.kind = "net_error" THEN Raised(FALSE, NoTitle)
    ELSE IF ans.primary.status # Forbidden
         THEN IF raise_for_status(ans.primary.status) THEN Raised(FALSE, NoTitle)
              ELSE Returned(ans.primary.text, FALSE, NoTitle)
    ELSE IF ans.api.kind = "net_error" \/ raise_for_status(ans.api.status)
            \/ ParsedText(ans.api.json).raised
         THEN Raised(TRUE, TitleOf(ans.path))
    ELSE IF ParsedText(ans.api.json).html = None \/ ParsedText(ans.api.json).html = Some("")
         THEN Raised(TRUE, TitleOf(ans.path))
         ELSE Returned(ParsedText(ans.api.json).html[1], TRUE, TitleOf(ans.path))

\* the answers with which fetch_html raises, and those with which it returns
RaisingAnswers == {ans \in FetchAnswers : fetch_html(ans).raised}
ReturningAnswers == {ans \in FetchAnswers : ~fetch_html(ans).raised}

\* the namespaces mw_original_image_url asks for, in its order
Namespaces == <<"Arquivo:", "File:">>

\* what the API answers for one title: a refusal (403), a failure that makes
\* scraper.get or raise_for_status raise (another HTTP error status, a network
\* error), a page without imageinfo, or the file's URL
LookupFailures == {"denied", "http_error", "missing"}
UrlOf(ns) == "https://wiki/images/file.gif"
LookupAnswers == [1..Len(Namespaces) -> LookupFailures \cup {"url"}]

\* the loop of mw_original_image_url from namespace i on
RECURSIVE LookupFrom(_, _)
LookupFrom(ans, i) ==
    IF i > Len(Namespaces) THEN [raised |-> FALSE, url |-> None]
    ELSE IF ans[i] = "denied" THEN [raised |-> FALSE, url |-> None]
    ELSE IF ans[i] = "http_error" THEN [raised |-> TRUE, url |-> None]
    ELSE IF ans[i] = "url" THEN [raised |-> FALSE, url |-> Some(UrlOf(Namespaces[i]))]
    ELSE LookupFrom(ans, i + 1)

mw_original_image_url(ans) == LookupFrom(ans, 1)

\* the responses to the GET of download: the connection fails, the status is
\* an error, or the body streams: whole, empty, or cut by a network error
\* before the first chunk ("early") or after some chunks ("mid")
NoResponse == [kind |-> "none", ctype |-> "none", body |-> "none", broken |-> "no"]
DownloadResponses ==
    { [kind |-> "connect_error", ctype |-> "none", body |-> "none", broken |-> "no"],
      [kind |-> "status_error", ctype |-> "none", body |-> "none", broken |-> "no"],
      [kind |-> "ok", ctype |-> "image", body |-> "full", broken |-> "no"],
      [kind |-> "ok", ctype |-> "image", body |-> "empty", broken |-> "no"],
      [kind |-> "ok", ctype |-> "image", body |-> "full", broken |-> "early"],
      [kind |-> "ok", ctype |-> "image", body |-> "full", broken |-> "mid"],
      [kind |-> "ok", ctype |-> "html", body |-> "full", broken |-> "no"] }

\* the three kinds of download failure: network error, error status,
\* a content type that is no image type
IsDownloadFailure(resp) ==
    \/ resp.kind \in {"connect_error", "status_error"}
    \/ resp.kind = "ok" /\ (resp.broken # "no" \/ resp.ctype # "image")

\* what open(out_path, "wb") and the chunk loop leave in the file
Written(resp) ==
    IF resp.body = "empty" \/ resp.broken = "early" THEN [len |-> "empty", ctype |-> "none"]
    ELSE IF resp.broken = "mid" THEN [len |-> "partial", ctype |-> resp.ctype]
    ELSE [len |-> "full", ctype |-> resp.ctype]

SetFile(files, path, content) ==
    [f \in DOMAIN files \cup {path} |-> IF f = path THEN content ELSE files[f]]

\* download of download_tibiawiki_assets.py: raise_for_status, then the body
\* is written, whatever its content type
download(files, path, resp) ==
    IF resp.kind # "ok" THEN [raised |-> TRUE, files |-> files]
    ELSE [raised |-> resp.broken # "no", files |-> SetFile(files, path, Written(resp))]

\* out_path.exists() and out_path.stat().st_size > 0
ExistsNonEmpty(files, path) == path \in DOMAIN files /\ files[path].len # "empty"

\* a table row as extract_name_and_wiki_file sees it: the alt of its first
\* <img alt=...> (None without one) and its <a href=...> elements
ImageExts == { <<".","g","i","f">>, <<".","p","n","g">> }
\* re.search(r"\.(gif|png)$", wiki_file, re.IGNORECASE)
HasImageExt(f) == Len(f) >= 4 /\ Lower(SubSeq(f, Len(f) - 3, Len(f))) \in ImageExts

SkippedTitles == {"Arquivo:", "Image:", "Especial:", "Special:"}

\* the first link of the row that has text, a title outside the file and
\* special namespaces and a /wiki/ href: its text, or None
RECURSIVE ChosenLink(_)
ChosenLink(links) ==
    IF links = <<>> THEN None
    ELSE LET a == Head(links)
             text == Strip(a.text)
         IN  IF text = <<>> \/ a.title[1] \in SkippedTitles \/ ~a.wiki
             THEN ChosenLink(Tail(links))
             ELSE Some(text)

RECURSIVE extract_name_and_wiki_file(_)
extract_name_and_wiki_file(rows) ==
    IF rows = <<>> THEN <<>>
    ELSE LET tr == Head(rows)
             rest == extract_name_and_wiki_file(Tail(rows))
         IN  IF tr.img = None THEN rest
             ELSE IF ~HasImageExt(Strip(tr.img[1])) THEN rest
             ELSE IF ChosenLink(tr.links) = None THEN rest
             ELSE << <<ChosenLink(tr.links)[1], Strip(tr.img[1])>> >> \o rest

InIndex(index, name) == \E i \in 1..Len(index) : index[i].name = name

\* the loop "for name, wiki_file in pairs" of run_group
RECURSIVE AddPairs(_, _)
AddPairs(index, pairs) ==
    IF pairs = <<>> THEN index
    ELSE LET name == Head(pairs)[1]
             fandom_file == build_fandom_gif_file(name)
         IN  IF InIndex(index, name) THEN AddPairs(index, Tail(pairs))
             ELSE IF fandom_file = None THEN AddPairs(index, Tail(pairs))
             ELSE AddPairs(Append(index, [name |-> name, file |-> fandom_file[1],
                                          sourceWikiFile |-> Head(pairs)[2],
                                          sourceUrl |-> ""]),
                           Tail(pairs))

\* src_url or ""
UrlOrEmpty(src) == IF src = None THEN "" ELSE src[1]

\* mutant of MirrorEntity: the existing file is skipped before the URL is recorded
MirrorEntity_SkipFirst(row, files, src, resp) ==
    IF ExistsNonEmpty(files, row.file)
    THEN [row |-> row, files |-> files, attempted |-> FALSE, outcome |-> "present"]
    ELSE IF src = None
    THEN [row |-> [row EXCEPT !.sourceUrl = UrlOrEmpty(src)], files |-> files,
          attempted |-> FALSE, outcome |-> "skipped"]
    ELSE [row |-> [row EXCEPT !.sourceUrl = UrlOrEmpty(src)],
          files |-> download(files, row.file, resp).files, attempted |-> TRUE,
          outcome |-> IF download(files, row.file, resp).raised
                      THEN "skipped" ELSE "downloaded"]

\* the body of the loop over the sorted index, once the URL is looked up
MirrorEntity(row, files, src, resp) ==
    LET row2 == [row EXCEPT !.sourceUrl = UrlOrEmpty(src)]
    IN  IF ExistsNonEmpty(files, row.file)
        THEN [row |-> row2, files |-> files, attempted |-> FALSE, outcome |-> "present"]
        ELSE IF src = None
        THEN [row |-> row2, files |-> files, attempted |-> FALSE, outcome |-> "skipped"]
        ELSE LET d == download(files, row.file, resp)
             IN  [row |-> row2, files |-> d.files, attempted |-> TRUE,
                  outcome |-> IF d.raised THEN "skipped" ELSE "downloaded"]

(***************************************************************************)
(* download_fandom_mounts.py                                               *)
(***************************************************************************)
SafeMaxLen == 160

\* the characters the first re.sub of safe_filename keeps: [\w\s\-\(\)\[\]\.]
IsSafeChar(c) ==
    \/ \E i \in 1..Len(LowerLetters) : LowerLetters[i] = c \/ UpperLetters[i] = c
    \/ IsDigit(c)
    \/ c \in {"_", "-", "(", ")", "[", "]", "."}
    \/ IsSpace(c)

Take(s, n) == SubSeq(s, 1, IF Len(s) < n THEN Len(s) ELSE n)

\* re.sub(r"\s+", "_", s)
RECURSIVE WsToUnderscore(_)
WsToUnderscore(s) ==
    IF s = <<>> THEN <<>>
    ELSE IF IsSpace(Head(s))
         THEN <<"_">> \o WsToUnderscore(LStrip(s))
         ELSE <<Head(s)>> \o WsToUnderscore(Tail(s))

safe_filename(name) ==
    LET s == WsToUnderscore(Strip(SelectSeq(name, IsSafeChar)))
    IN  IF s # <<>> THEN Take(s, SafeMaxLen) ELSE <<"u","n","k","n","o","w","n">>

\* an image URL: what tells it from another one, and the suffix of its path
Url(id, suffix) == [id |-> id, suffix |-> suffix]
PngExt == <<".","p","n","g">>

\* an <img>: its data-src and src attributes, None when absent or empty
Img(data_src, src) == [data_src |-> data_src, src |-> src]

\* for attr in ("data-src", "src"): the first that is set
ImgUrl(img) ==
    IF img.data_src # None THEN img.data_src
    ELSE IF img.src # None THEN img.src
    ELSE None

\* a page as choose_best_image_from_page sees it: the <img> of the portable
\* infobox figure and the first <img> of the document, None when there is none
choose_best_image_from_page(page) ==
    IF page.pi # None /\ ImgUrl(page.pi[1]) # None THEN ImgUrl(page.pi[1])
    ELSE IF page.img # None /\ ImgUrl(page.img[1]) # None THEN ImgUrl(page.img[1])
    ELSE None

\* Path(urlparse(img_url).path).suffix or ".png"
ExtOf(url) == IF url.suffix # <<>> THEN url.suffix ELSE PngExt

\* download of the mounts (and outfits) script: raise_for_status, then the
\* content-type test, then the body is written
download_checked(files, path, resp) ==
    IF resp.kind # "ok" THEN [raised |-> TRUE, files |-> files]
    ELSE IF resp.ctype # "image" THEN [raised |-> TRUE, files |-> files]
    ELSE [raised |-> resp.broken # "no", files |-> SetFile(files, path, Written(resp))]

\* what the parse API gives for a title: an error status, a response without
\* html, or the page
InfoboxUrl == Url("infobox", <<".","g","i","f">>)
ThumbUrl == Url("thumb", <<>>)
PlaceholderUrl == Url("placeholder", <<".","g","i","f">>)
MountPages ==
    { [api |-> "http_error", pi |-> None, img |-> None],
      [api |-> "no_html", pi |-> None, img |-> None],
      [api |-> "html", pi |-> None, img |-> None],
      [api |-> "html", pi |-> Some(Img(None, None)), img |-> Some(Img(None, None))],
      [api |-> "html", pi |-> Some(Img(Some(InfoboxUrl), Some(PlaceholderUrl))),
                       img |-> Some(Img(None, Some(ThumbUrl)))],
      [api |-> "html", pi |-> None, img |-> Some(Img(None, Some(ThumbUrl)))] }

\* the try block of main's loop for one title: the url it resolved (None when
\* api_parse_html raised or the page has no image), the new files, the item
\* appended to out_items (None when there is none), whether download was called
MountTurn(title, page, resp, files) ==
    LET img_url == IF page.api = "html" THEN choose_best_image_from_page(page) ELSE None
    IN  IF img_url = None
        THEN [url |-> None, files |-> files, item |-> None, attempted |-> FALSE]
        ELSE LET filename == safe_filename(title) \o ExtOf(img_url[1])
                 d == download_checked(files, filename, resp)
             IN  [url |-> img_url, files |-> d.files, attempted |-> TRUE,
                  item |-> IF d.raised THEN None
                           ELSE Some([name |-> title, file |-> filename,
                                      sourceUrl |-> img_url[1].id])]

(***************************************************************************)
(* download_fandom_achievements.py                                         *)
(***************************************************************************)
\* A cell is its tag and its children in document order: text, <a> and <sup>
\* elements, each with its string.  A row is its cells, a table its rows.
Node(kind, s) == [kind |-> kind, s |-> s]
Cell(tag, kids) == [tag |-> tag, kids |-> kids]

\* the stripped, non-empty strings of the children
RECURSIVE Pieces(_)
Pieces(kids) ==
    IF kids = <<>> THEN <<>>
    ELSE IF Strip(Head(kids).s) = <<>> THEN Pieces(Tail(kids))
    ELSE <<Strip(Head(kids).s)>> \o Pieces(Tail(kids))

\* element.get_text(" ", strip=True)
GetTextSp(kids) == Join(Pieces(kids), <<" ">>)

IsLink(n) == n.kind = "a"
NotSup(n) == n.kind # "sup"

\* name_cell.find("a"): the first <a> of the cell, None without one
FindA(cell) ==
    IF SelectSeq(cell.kids, IsLink) = <<>> THEN None
    ELSE Some(Head(SelectSeq(cell.kids, IsLink)))

\* a.get_text(strip=True)
LinkText(a) == Strip(a.s)

norm(s) == CollapseWs(Lower(Strip(s)))

\* cell_text: the <sup> elements are removed, then the text is collapsed
cell_text(cell) == CollapseWs(GetTextSp(SelectSeq(cell.kids, NotSup)))

IsTh(c) == c.tag = "th"

\* the check mark character U+2713, one character of a text
CheckMark == "U+2713"

\* the least number of <th> a header row must have
MinHeaderCells == 5

RequiredHeaders == {<<"n", "a", "m", "e">>, <<"g", "r", "a", "d", "e">>, <<"p", "o", "i", "n", "t", "s">>, <<"d", "e", "s", "c", "r", "i", "p", "t", "i", "o", "n">>}

\* find_achievements_table from table i on: the position of the table found
\* and its headers, or None
RECURSIVE FindTableFrom(_, _)
FindTableFrom(doc, i) ==
    IF i > Len(doc) THEN None
    ELSE IF doc[i] = <<>> THEN FindTableFrom(doc, i + 1)
    ELSE LET ths == SelectSeq(doc[i][1], IsTh)
             headers == [k \in 1..Len(ths) |-> norm(GetTextSp(ths[k].kids))]
         IN  IF Len(ths) < MinHeaderCells THEN FindTableFrom(doc, i + 1)
             ELSE IF \A h \in RequiredHeaders : \E k \in 1..Len(headers) : headers[k] = h
                  THEN Some([table |-> i, headers |-> headers])
                  ELSE FindTableFrom(doc, i + 1)

find_achievements_table(doc) == FindTableFrom(doc, 1)

\* idx = {h: i for i, h in enumerate(headers)}; idx.get(h): the last column
\* with that header (counted from 1), None without one
IdxGet(headers, h) ==
    IF \E k \in 1..Len(headers) : headers[k] = h
    THEN Some(CHOOSE k \in 1..Len(headers) :
                 headers[k] = h /\ \A j \in (k + 1)..Len(headers) : headers[j] # h)
    ELSE None

Max2(a, b) == IF a > b THEN a ELSE b

\* x in s for two texts
Contains(s, x) == \E i \in 0..(Len(s) - Len(x)) : SubSeq(s, i + 1, i + Len(x)) = x

\* mutant of AchName: the text of the cell is taken even when it has a link
AchName_CellText(name_cell) == Strip(cell_text(name_cell))

\* the name of a row: the text of the first link of the cell, the cell's text
\* without a link
AchName(name_cell) ==
    LET a == FindA(name_cell)
    IN  Strip(IF a # None THEN LinkText(a[1]) ELSE cell_text(name_cell))

\* the body of "for tr in rows[1:]": the item of the row, None when the row
\* is skipped
AchItem(headers, tds) ==
    LET name_i == IdxGet(headers, <<"n", "a", "m", "e">>)[1]
        grade_i == IdxGet(headers, <<"g", "r", "a", "d", "e">>)[1]
        points_i == IdxGet(headers, <<"p", "o", "i", "n", "t", "s">>)[1]
        desc_i == IdxGet(headers, <<"d", "e", "s", "c", "r", "i", "p", "t", "i", "o", "n">>)[1]
        id_i == IdxGet(headers, <<"i", "d">>)
        secret_i == IdxGet(headers, <<"s", "e", "c", "r", "e", "t", "?">>)
        impl_i == IdxGet(headers, <<"i", "m", "p", "l", "e", "m", "e", "n", "t", "e", "d">>)
    IN  IF tds = <<>> \/ Len(tds) < Max2(Max2(name_i, grade_i), Max2(points_i, desc_i))
        THEN None
        ELSE IF AchName(tds[name_i]) = <<>> THEN None
        ELSE Some(
            [name |-> AchName(tds[name_i]),
             grade |-> parse_int(cell_text(tds[grade_i])),
             points |-> parse_int(cell_text(tds[points_i])),
             description |-> cell_text(tds[desc_i])]
            @@ (IF id_i # None /\ id_i[1] <= Len(tds)
                THEN [id |-> parse_int(cell_text(tds[id_i[1]]))] ELSE <<>>)
            @@ (IF secret_i # None /\ secret_i[1] <= Len(tds)
                THEN [secret |-> \/ Contains(cell_text(tds[secret_i[1]]), <<CheckMark>>)
                                 \/ Contains(Lower(cell_text(tds[secret_i[1]])), <<"y", "e", "s">>)]
                ELSE <<>>)
            @@ (IF impl_i # None /\ impl_i[1] <= Len(tds)
                THEN [implemented |-> cell_text(tds[impl_i[1]])] ELSE <<>>))

(***************************************************************************)
(* The parts of the state a script does not touch.                         *)
(***************************************************************************)
NameIdle == nm_in = <<>> /\ nm_out = None
IntIdle == pi_in = <<>> /\ pi_out = None
NoLast ==
    [name |-> <<>>, file |-> <<>>, lookup |-> <<>>, resolved |-> None, existed |-> FALSE,
     resp |-> NoResponse, outcome |-> "none"]

GroupIdle ==
    /\ g_page = 0 /\ g_index = <<>> /\ g_order = <<>> /\ g_k = 0
    /\ g_files = <<>> /\ g_indexfile = None /\ g_stale = {} /\ g_downloaded = 0 /\ g_skipped = 0
    /\ g_last = NoLast

MountIdle ==
    /\ m_wiki = <<>> /\ m_run = 0 /\ m_titles = <<>> /\ m_i = 0 /\ m_out = <<>>
    /\ m_files = <<>> /\ m_indexes = <<>> /\ m_downloads = 0

FetchIdle == f_in = <<>> /\ f_out = None
AchIdle == a_doc = <<>> /\ a_found = None /\ a_r = 0 /\ a_out = <<>> /\ a_file = None

(***************************************************************************)
(* Specification of run_group, run again and again on one directory.       *)
(***************************************************************************)
Link(text, title, wiki) == [text |-> text, title |-> title, wiki |-> wiki]
FileLink(f) == Link(<<>>, <<"Arquivo:", f>>, TRUE)

\* the table rows the pages are made of
GroupRows ==
    { [img |-> Some(<<"A",".","g","i","f">>),
       links |-> <<FileLink("A.gif"), Link(<<"a","b">>, <<"", "ab">>, TRUE)>>],
      [img |-> Some(<<"B",".","P","N","G"," ">>),
       links |-> <<Link(<<"A","b">>, <<"", "Ab">>, TRUE)>>],
      [img |-> Some(<<"C",".","g","i","f">>),
       links |-> <<Link(<<"x">>, <<"", "x">>, FALSE), Link(<<" ","a","b">>, <<"", "ab">>, TRUE)>>],
      [img |-> None, links |-> <<Link(<<"c">>, <<"", "c">>, TRUE)>>],
      [img |-> Some(<<"E",".","j","p","g">>), links |-> <<Link(<<"c">>, <<"", "c">>, TRUE)>>],
      [img |-> Some(<<"F",".","g","i","f">>), links |-> <<FileLink("F.gif")>>] }

PageRows == UNION {[1..k -> GroupRows] : k \in 0..MaxRowsPerPage}

InitGroup ==
    /\ pc = "start"
    /\ FetchIdle
    /\ GroupIdle
    /\ NameIdle
    /\ IntIdle
    /\ MountIdle
    /\ AchIdle

\* run_group is entered: ensure_dir, index = {}
GStartRun ==
    /\ pc \in {"start", "done", "aborted"}
    /\ pc' = "fetch"
    /\ g_page' = 1
    /\ g_index' = <<>>
    /\ g_order' = <<>>
    /\ g_k' = 0
    /\ g_downloaded' = 0
    /\ g_skipped' = 0
    /\ g_last' = NoLast
    /\ g_indexfile' = None
    /\ g_stale' = IF g_indexfile = None THEN g_stale
                  ELSE {g_indexfile[1][i].name : i \in
                          {j \in 1..Len(g_indexfile[1]) : g_indexfile[1][j].sourceUrl = ""}}
    /\ UNCHANGED <<g_files, varsName, varsInt, varsMounts, varsAch, varsFetch>>

\* one turn of "for url in page_urls" in which fetch_html raises: nothing
\* catches it, the run ends there
GFetchFail ==
    /\ pc = "fetch"
    /\ RaisingAnswers # {}
    /\ pc' = "aborted"
    /\ UNCHANGED <<varsGroup, varsName, varsInt, varsMounts, varsAch, varsFetch>>

\* one turn of "for url in page_urls": the page is fetched, its rows are
\* extracted and the new names enter the index; after the last page the
\* index is sorted for the mirror loop
GFetchPage ==
    /\ pc = "fetch"
    /\ ReturningAnswers # {}
    /\ \E rows \in PageRows :
         LET index2 == AddPairs(g_index, extract_name_and_wiki_file(rows))
         IN  /\ g_index' = index2
             /\ g_page' = g_page + 1
             /\ IF g_page = MaxPages
                THEN pc' = "mirror" /\ g_order' = SortedOrder(index2) /\ g_k' = 1
                ELSE pc' = "fetch" /\ UNCHANGED <<g_order, g_k>>
    /\ UNCHANGED <<g_files, g_indexfile, g_stale, g_downloaded, g_skipped, g_last,
                   varsName, varsInt, varsMounts, varsAch, varsFetch>>

\* one turn of the loop over the sorted index
GMirror ==
    /\ pc = "mirror"
    /\ g_k <= Len(g_order)
    /\ \E ans \in LookupAnswers :
       \E resp \in IF mw_original_image_url(ans).url = None
                      \/ ExistsNonEmpty(g_files, g_index[g_order[g_k]].file)
                   THEN {NoResponse} ELSE DownloadResponses :
         LET i == g_order[g_k]
             row == g_index[i]
             look == mw_original_image_url(ans)
             m == MirrorEntity(row, g_files, look.url, resp)
         IN  IF look.raised
             THEN /\ pc' = "aborted"
                  /\ g_last' = [name |-> row.name, file |-> row.file, lookup |-> ans,
                                resolved |-> None,
                                existed |-> ExistsNonEmpty(g_files, row.file),
                                resp |-> NoResponse, outcome |-> "raised"]
                  /\ UNCHANGED <<g_index, g_files, g_k, g_downloaded, g_skipped>>
             ELSE /\ pc' = "mirror"
                  /\ g_index' = [g_index EXCEPT ![i] = m.row]
                  /\ g_files' = m.files
                  /\ g_k' = g_k + 1
                  /\ g_downloaded' = g_downloaded + (IF m.outcome = "downloaded" THEN 1 ELSE 0)
                  /\ g_skipped' = g_skipped + (IF m.outcome = "skipped" THEN 1 ELSE 0)
                  /\ g_last' = [name |-> row.name, file |-> row.file, lookup |-> ans,
                                resolved |-> look.url,
                                existed |-> ExistsNonEmpty(g_files, row.file),
                                resp |-> IF m.attempted THEN resp ELSE NoResponse,
                                outcome |-> m.outcome]
    /\ UNCHANGED <<g_page, g_order, g_indexfile, g_stale, varsName, varsInt, varsMounts, varsAch, varsFetch>>

\* json.dump(list(index.values())) into index.json
GWriteIndex ==
    /\ pc = "mirror"
    /\ g_k > Len(g_order)
    /\ pc' = "done"
    /\ g_indexfile' = Some(g_index)
    /\ UNCHANGED <<g_page, g_index, g_order, g_k, g_files, g_stale, g_downloaded,
                   g_skipped, g_last, varsName, varsInt, varsMounts, varsAch, varsFetch>>

NextGroup == GStartRun \/ GFetchFail \/ GFetchPage \/ GMirror \/ GWriteIndex

SpecGroup == InitGroup /\ [][NextGroup]_vars

(***************************************************************************)
(* Specification of the mounts script, run again on an unchanged wiki:     *)
(* the pages and the download responses are fixed at the start.            *)
(***************************************************************************)
MountTitles ==
    { <<"W","a","r"," ","B","e","a","r">>, <<"b","l","a","z","e","'","s">>,
      <<"A","n","t">>, <<" ","r","a","t","!">> }

\* titles.sort(key=lambda x: x.lower()) of a set of titles
RECURSIVE SortedTitles(_)
SortedTitles(S) ==
    IF S = {} THEN <<>>
    ELSE LET t == CHOOSE x \in S : \A y \in S \ {x} : TextLess(Lower(x), Lower(y))
         IN  <<t>> \o SortedTitles(S \ {t})

MountAnswers == [page : MountPages, resp : DownloadResponses]

\* the download response matters only for a page that has an image
MountWikis ==
    UNION { { w \in [S -> MountAnswers] :
                \A t \in S : (w[t].page.api # "html"
                              \/ choose_best_image_from_page(w[t].page) = None)
                             => w[t].resp = CHOOSE r \in DownloadResponses : TRUE }
            : S \in {T \in SUBSET MountTitles : Cardinality(T) <= MaxTitles} }

InitMounts ==
    /\ pc = "start"
    /\ FetchIdle
    /\ m_wiki \in MountWikis
    /\ m_run = 0 /\ m_titles = <<>> /\ m_i = 0 /\ m_out = <<>>
    /\ m_files = <<>> /\ m_indexes = <<>> /\ m_downloads = 0
    /\ NameIdle /\ IntIdle /\ GroupIdle /\ AchIdle

\* main is entered: the category query raises and the script ends
MCategoryFail ==
    /\ pc \in {"start", "done"}
    /\ m_run < MaxMountRuns
    /\ pc' = "aborted"
    /\ m_run' = m_run + 1
    /\ UNCHANGED <<m_wiki, m_titles, m_i, m_out, m_files, m_indexes, m_downloads,
                   varsName, varsInt, varsGroup, varsAch, varsFetch>>

\* main is entered: the titles of the category, sorted
MStart ==
    /\ pc \in {"start", "done"}
    /\ m_run < MaxMountRuns
    /\ pc' = "titles"
    /\ m_run' = m_run + 1
    /\ m_titles' = SortedTitles(DOMAIN m_wiki)
    /\ m_i' = 1
    /\ m_out' = <<>>
    /\ m_downloads' = 0
    /\ UNCHANGED <<m_wiki, m_files, m_indexes, varsName, varsInt, varsGroup, varsAch, varsFetch>>

\* one turn of "for title in titles"
MTitle ==
    /\ pc = "titles"
    /\ m_i <= Len(m_titles)
    /\ LET title == m_titles[m_i]
           t == MountTurn(title, m_wiki[title].page, m_wiki[title].resp, m_files)
       IN  /\ m_files' = t.files
           /\ m_out' = IF t.item = None THEN m_out ELSE Append(m_out, t.item[1])
           /\ m_downloads' = m_downloads + (IF t.attempted THEN 1 ELSE 0)
    /\ m_i' = m_i + 1
    /\ UNCHANGED <<pc, m_wiki, m_run, m_titles, m_indexes, varsName, varsInt, varsGroup, varsAch, varsFetch>>

\* index.json and index.csv are written from out_items
MWrite ==
    /\ pc = "titles"
    /\ m_i > Len(m_titles)
    /\ pc' = "done"
    /\ m_indexes' = Append(m_indexes, [json |-> m_out, csv |-> m_out])
    /\ UNCHANGED <<m_wiki, m_run, m_titles, m_i, m_out, m_files, m_downloads,
                   varsName, varsInt, varsGroup, varsAch, varsFetch>>

NextMounts == MCategoryFail \/ MStart \/ MTitle \/ MWrite

SpecMounts == InitMounts /\ [][NextMounts]_vars

(***************************************************************************)
(* Specification of the achievements script over bounded documents.        *)
(***************************************************************************)
Th(s) == Cell("th", <<Node("text", s)>>)
Td(kids) == Cell("td", kids)

\* the header rows of the tables of a document
HeaderRows ==
    { <<Th(<<"N", "a", "m", "e">>), Th(<<"I", "D">>), Th(<<"S", "e", "c", "r", "e", "t", "?">>),
        Th(<<"G", "r", "a", "d", "e">>), Th(<<"P", "o", "i", "n", "t", "s">>),
        Th(<<"I", "m", "p", "l", "e", "m", "e", "n", "t", "e", "d">>),
        Th(<<"D", "e", "s", "c", "r", "i", "p", "t", "i", "o", "n">>),
        Th(<<"S", "p", "o", "i", "l", "e", "r">>)>>,
      <<Th(<<"P", "o", "i", "n", "t", "s">>), Th(<<"N", "a", "m", "e">>),
        Th(<<"D", "e", "s", "c", "r", "i", "p", "t", "i", "o", "n">>),
        Th(<<"G", "r", "a", "d", "e">>)>>,
      <<Th(<<" ", "N", "A", "M", "E">>), Th(<<"g", "r", "a", "d", "e", " ">>),
        Th(<<"P", "o", "i", "n", "t", "s">>), Th(<<"S", "e", "t", " ", " ", "b", "y">>),
        Th(<<"D", "E", "S", "C", "R", "I", "P", "T", "I", "O", "N">>)>>,
      <<Th(<<"N", "a", "m", "e">>), Th(<<"I", "D">>), Th(<<"G", "r", "a", "d", "e">>),
        Th(<<"P", "o", "i", "n", "t", "s">>), Th(<<"S", "p", "o", "i", "l", "e", "r">>)>> }

\* what a data row holds, column by column
AchRows ==
    { [name |-> <<Node("a", <<"A", "b">>), Node("text", <<"*">>)>>,
       grade |-> <<Node("text", <<"1", "5">>), Node("sup", <<"1">>)>>,
       points |-> <<Node("text", <<"3", " ", "x">>)>>, short |-> FALSE],
      [name |-> <<Node("text", <<" ", "C", "d", " ">>), Node("sup", <<"2">>)>>,
       grade |-> <<Node("text", <<"x">>)>>,
       points |-> <<Node("text", <<"0">>)>>, short |-> FALSE],
      [name |-> <<Node("a", <<" ">>), Node("text", <<"E", "f">>)>>,
       grade |-> <<Node("text", <<"-", "7", " ", "x">>)>>,
       points |-> <<Node("text", <<"x">>)>>, short |-> FALSE],
      [name |-> <<Node("text", <<"A", "b">>)>>,
       grade |-> <<Node("text", <<"0">>)>>,
       points |-> <<Node("text", <<"-", "7", " ", "x">>)>>, short |-> FALSE],
      [name |-> <<Node("text", <<"E", "f">>)>>,
       grade |-> <<Node("text", <<"1", "5">>)>>,
       points |-> <<Node("text", <<"0">>)>>, short |-> TRUE] }

\* the <tr> of a data row under a header row: its cells stand in the columns
\* of the header row; a short row has its first cell only
DataRow(hrow, r) ==
    LET full == [k \in 1..Len(hrow) |->
                    LET h == norm(GetTextSp(hrow[k].kids))
                    IN  Td(IF h = <<"n", "a", "m", "e">> THEN r.name
                           ELSE IF h = <<"g", "r", "a", "d", "e">> THEN r.grade
                           ELSE IF h = <<"p", "o", "i", "n", "t", "s">> THEN r.points
                           ELSE IF h = <<"s", "e", "c", "r", "e", "t", "?">> THEN <<Node("text", <<CheckMark>>)>>
                           ELSE IF h = <<"i", "d">> THEN <<Node("text", <<"1", "5">>)>>
                           ELSE <<Node("text", <<"x">>)>>)]
    IN  IF r.short THEN SubSeq(full, 1, 1) ELSE full

TableOf(hrow, rows) == <<hrow>> \o [k \in 1..Len(rows) |-> DataRow(hrow, rows[k])]

AchDoc(hs, rows) == [t \in 1..Len(hs) |-> TableOf(hs[t], rows)]

InitAch ==
    /\ pc = "start"
    /\ FetchIdle
    /\ \E hs \in UNION {[1..n -> HeaderRows] : n \in 0..MaxTables},
          rows \in UNION {[1..n -> AchRows] : n \in 0..MaxDataRows} :
         a_doc = AchDoc(hs, rows)
    /\ a_found = None /\ a_r = 0 /\ a_out = <<>> /\ a_file = None
    /\ NameIdle /\ IntIdle /\ GroupIdle /\ MountIdle

\* api_parse_html raises: the script ends
AchParseFail ==
    /\ pc = "start"
    /\ pc' = "aborted"
    /\ UNCHANGED <<varsAch, varsName, varsInt, varsGroup, varsMounts, varsFetch>>

\* mutant of AchLocate: without a table the script goes on and writes an
\* empty list
AchLocate_WriteEmpty ==
    /\ pc = "start"
    /\ LET found == find_achievements_table(a_doc)
       IN  IF found = None
           THEN /\ pc' = "done"
                /\ a_found' = Some([table |-> 0, headers |-> <<>>])
                /\ a_file' = Some(<<>>)
                /\ UNCHANGED a_r
           ELSE /\ pc' = "rows"
                /\ a_found' = found
                /\ a_r' = 2
                /\ UNCHANGED a_file
    /\ UNCHANGED <<a_doc, a_out, varsName, varsInt, varsGroup, varsMounts, varsFetch>>

\* the page is parsed and the table is looked for; without one main raises
AchLocate ==
    /\ pc = "start"
    /\ LET found == find_achievements_table(a_doc)
       IN  IF found = None
           THEN /\ pc' = "aborted"
                /\ a_found' = Some([table |-> 0, headers |-> <<>>])
                /\ UNCHANGED a_r
           ELSE /\ pc' = "rows"
                /\ a_found' = found
                /\ a_r' = 2
    /\ UNCHANGED <<a_doc, a_out, a_file, varsName, varsInt, varsGroup, varsMounts, varsFetch>>

\* one turn of "for tr in rows[1:]"
AchRow ==
    /\ pc = "rows"
    /\ a_r <= Len(a_doc[a_found[1].table])
    /\ LET item == AchItem(a_found[1].headers, a_doc[a_found[1].table][a_r])
       IN  a_out' = IF item = None THEN a_out ELSE Append(a_out, item[1])
    /\ a_r' = a_r + 1
    /\ UNCHANGED <<pc, a_doc, a_found, a_file, varsName, varsInt, varsGroup, varsMounts, varsFetch>>

\* achievements.json is written
AchWrite ==
    /\ pc = "rows"
    /\ a_r > Len(a_doc[a_found[1].table])
    /\ pc' = "done"
    /\ a_file' = Some(a_out)
    /\ UNCHANGED <<a_doc, a_found, a_r, a_out, varsName, varsInt, varsGroup, varsMounts, varsFetch>>

NextAch == AchParseFail \/ AchLocate \/ AchRow \/ AchWrite

SpecAch == InitAch /\ [][NextAch]_vars

(***************************************************************************)
(* Specification of fetch_html over the answers of the wiki.               *)
(***************************************************************************)
InitFetch ==
    /\ pc = "start"
    /\ f_in \in FetchAnswers
    /\ f_out = None
    /\ NameIdle
    /\ IntIdle
    /\ GroupIdle
    /\ MountIdle
    /\ AchIdle

FetchPage ==
    /\ pc = "start"
    /\ pc' = "done"
    /\ f_out' = Some(fetch_html(f_in))
    /\ UNCHANGED <<f_in, varsName, varsInt, varsGroup, varsMounts, varsAch>>

NextFetch == FetchPage

SpecFetch == InitFetch /\ [][NextFetch]_vars

(***************************************************************************)
(* Specification of build_fandom_gif_file over bounded names.              *)
(***************************************************************************)
NameAlphabet == {"a", "A", "n", "N", "b", "B", "-", " "}

InitName ==
    /\ pc = "start"
    /\ FetchIdle
    /\ nm_in \in TextsUpTo(NameAlphabet, MaxNameLen)
    /\ nm_out = None
    /\ IntIdle
    /\ GroupIdle
    /\ MountIdle
    /\ AchIdle

BuildName ==
    /\ pc = "start"
    /\ pc' = "done"
    /\ nm_out' = build_fandom_gif_file(nm_in)
    /\ UNCHANGED <<nm_in, varsInt, varsGroup, varsMounts, varsAch, varsFetch>>

NextName == BuildName

SpecName == InitName /\ [][NextName]_vars

(***************************************************************************)
(* Specification of parse_int over bounded cell texts.                     *)
(***************************************************************************)
IntAlphabet == {"0", "1", "7", "-", "x", " "}

InitInt ==
    /\ pc = "start"
    /\ FetchIdle
    /\ pi_in \in TextsUpTo(IntAlphabet, MaxIntLen)
    /\ pi_out = None
    /\ NameIdle
    /\ GroupIdle
    /\ MountIdle
    /\ AchIdle

ParseInt ==
    /\ pc = "start"
    /\ pc' = "done"
    /\ pi_out' = parse_int(pi_in)
    /\ UNCHANGED <<pi_in, varsName, varsGroup, varsMounts, varsAch, varsFetch>>

NextInt == ParseInt

SpecInt == InitInt /\ [][NextInt]_vars

(***************************************************************************)
(* Claims about build_fandom_gif_file (SpecName).                          *)
(***************************************************************************)
\* the case-folded, whitespace-normalized name
FoldedName(name) == Lower(Join(SplitWs(Strip(name)), <<" ">>))

\* a word of the folded name, written the way the rule of the claim asks:
\* the first letter of every hyphen-separated segment capitalized
TitleWord(w) ==
    [k \in 1..Len(w) |-> IF k = 1 \/ w[k - 1] = "-" THEN UpperChar(w[k]) ELSE w[k]]

StemOf(out) == SubSeq(out[1], 1, Len(out[1]) - Len(GifExt))

\* C8: the stem of the canonical file name depends only on the case-folded,
\* whitespace-normalized name; its words are those of the folded name joined by
\* underscores, each with the first letter of every hyphen-separated segment
\* capitalized, except that a word of the function-word set that is not the
\* first word is left in lower case.
C8_CanonicalStem ==
    (pc = "done" /\ nm_in # <<>>) =>
        LET folded == FoldedName(nm_in)
            fw == SplitOn(folded, " ")
            stem == StemOf(nm_out)
            sw == SplitOn(stem, "_")
        IN  /\ nm_out # None
            /\ SubSeq(nm_out[1], Len(stem) + 1, Len(nm_out[1])) = GifExt
            /\ nm_out = build_fandom_gif_file(folded) \/ folded = <<>>
            /\ Len(sw) = Len(fw)
            /\ \A i \in 1..Len(fw) :
                   sw[i] = IF i > 1 /\ fw[i] \in LOWER THEN fw[i] ELSE TitleWord(fw[i])

\* a mixed-case two-word name whose words are both the function word "a":
\* the first stays capitalized, the second is lower-cased
C8_Witness ==
    /\ pc = "done"
    /\ nm_in = <<"a", " ", " ", "A">>
    /\ nm_out = Some(<<"A", "_", "a">> \o GifExt)

(***************************************************************************)
(* Claims about parse_int (SpecInt).                                       *)
(***************************************************************************)
HasDigit(s) == \E i \in 1..Len(s) : IsDigit(s[i])
FirstDigit(s) == CHOOSE i \in 1..Len(s) : IsDigit(s[i]) /\ \A j \in 1..(i - 1) : ~IsDigit(s[j])
\* the last index of the run of digits that starts at d
RunEnd(s, d) ==
    CHOOSE e \in d..Len(s) :
        /\ \A j \in d..e : IsDigit(s[j])
        /\ (e = Len(s) \/ ~IsDigit(s[e + 1]))

\* C10: parse_int returns the value of the first signed integer pattern of the
\* text (the first run of digits, negated when a hyphen stands right before
\* it), whatever surrounds it, and returns None, which is not 0, when the text
\* holds no digit.
C10_FirstSignedInteger ==
    pc = "done" =>
        /\ None # Some(0)
        /\ ~HasDigit(pi_in) => pi_out = None
        /\ HasDigit(pi_in) =>
              LET d == FirstDigit(pi_in)
                  v == DecVal(SubSeq(pi_in, d, RunEnd(pi_in, d)))
              IN  pi_out = Some(IF d > 1 /\ pi_in[d - 1] = "-" THEN 0 - v ELSE v)

\* an annotated number: the integer is taken, the annotation dropped
C10_Witness ==
    /\ pc = "done"
    /\ pi_in = <<"1", "7", " ", "x">>
    /\ pi_out = Some(17)

(***************************************************************************)
(* Claims about run_group (SpecGroup).                                     *)
(***************************************************************************)
\* C4: in the last lookup, every failure of a namespace falls through to the
\* next one, so the first namespace that answers with a URL gives the
\* resolved URL, and no failure ends the run.
C4_ChainFallsThrough ==
    g_last.lookup # <<>> =>
        /\ g_last.outcome # "raised"
        /\ \A i \in 1..Len(Namespaces) :
              (g_last.lookup[i] = "url" /\ \A j \in 1..(i - 1) : g_last.lookup[j] \in LookupFailures)
                  => g_last.resolved = Some(UrlOf(Namespaces[i]))

\* C5: a download that failed in one of the three ways (network error, error
\* status, a content type that is no image type) is counted as skipped and
\* leaves no file that counts as a downloaded asset, and the run goes on.
C5_DownloadFailureSkipped ==
    (g_last.resp # NoResponse /\ IsDownloadFailure(g_last.resp)) =>
        /\ g_last.outcome = "skipped"
        /\ ~ExistsNonEmpty(g_files, g_last.file)
        /\ pc # "aborted"

\* C6: a turn of the mirror loop for an entity whose file exists and is not
\* empty downloads nothing and leaves the files as they are; when the turn
\* completes, the entity's row of the index carries the URL this turn resolved.
C6_SkipAndHeal ==
    [][ (/\ pc = "mirror"
         /\ g_k <= Len(g_order)
         /\ ExistsNonEmpty(g_files, g_index[g_order[g_k]].file))
        => /\ g_files' = g_files
           /\ g_downloaded' = g_downloaded
           /\ g_skipped' = g_skipped
           /\ g_last'.resp = NoResponse
           /\ pc' = "mirror" =>
                 g_index'[g_order[g_k]].sourceUrl = UrlOrEmpty(g_last'.resolved) ]_vars

\* a run has ended in which an entity that the index of the run before listed
\* with an empty URL found its file present, downloaded nothing and got its URL
C6_Witness ==
    /\ pc = "done"
    /\ g_last.name \in g_stale
    /\ g_last.existed
    /\ g_last.outcome = "present"
    /\ g_last.resolved # None
    /\ g_downloaded = 0
    /\ \E i \in 1..Len(g_indexfile[1]) :
          /\ g_indexfile[1][i].name = g_last.name
          /\ g_indexfile[1][i].sourceUrl = g_last.resolved[1]

(***************************************************************************)
(* Claims about the mounts script (SpecMounts).                            *)
(***************************************************************************)
LastIndex == m_indexes[Len(m_indexes)].json
IndexBefore == m_indexes[Len(m_indexes) - 1].json
Entries(index) == {<<index[i].name, index[i].file>> : i \in 1..Len(index)}

\* C1: when the script has run twice on an unchanged wiki, the second run has
\* called download for nothing, and its index lists the same names with the
\* same files as the index of the first run.
C1_IdempotentRerun ==
    (pc = "done" /\ Len(m_indexes) >= 2) =>
        /\ m_downloads = 0
        /\ Entries(LastIndex) = Entries(IndexBefore)

MountUnresolved(t) ==
    m_wiki[t].page.api # "html" \/ choose_best_image_from_page(m_wiki[t].page) = None

\* C3: every title for which no image URL could be resolved is in the index
\* the run wrote, with an empty sourceUrl.
C3_UnresolvedStillIndexed ==
    pc = "done" =>
        \A t \in DOMAIN m_wiki :
            MountUnresolved(t) =>
                \E i \in 1..Len(LastIndex) :
                    LastIndex[i].name = t /\ LastIndex[i].sourceUrl = ""

(***************************************************************************)
(* Claims about the achievements script (SpecAch).                         *)
(***************************************************************************)
\* the normalized texts of the header cells of the first row of a table
HeaderSet(table) ==
    IF table = <<>> THEN {}
    ELSE {norm(GetTextSp(table[1][k].kids)) : k \in {j \in 1..Len(table[1]) : IsTh(table[1][j])}}

Locatable(doc) == {i \in 1..Len(doc) : RequiredHeaders \subseteq HeaderSet(doc[i])}

\* C7: the table located is the first one of the document whose normalized
\* header set holds every required header, however many header cells it has
\* (table 0: none is located).
C7_LocatesBySupersetOfHeaders ==
    a_found # None =>
        a_found[1].table =
            IF Locatable(a_doc) = {} THEN 0
            ELSE CHOOSE i \in Locatable(a_doc) : \A j \in Locatable(a_doc) : i <= j

\* C2: the names of the list written are unique.
C2_NamesUnique ==
    a_file # None =>
        \A i, j \in 1..Len(a_file[1]) : i # j => a_file[1][i].name # a_file[1][j].name

AchNameColumn == IdxGet(a_found[1].headers, <<"n", "a", "m", "e">>)[1]
AchTable == a_doc[a_found[1].table]
\* the row has the cells that the loop asks for before it reads the name
AchRowRead(tds) ==
    \A h \in RequiredHeaders : Len(tds) >= IdxGet(a_found[1].headers, h)[1]

C11_TableNotFoundFatal ==
    (pc # "start" /\ (Locatable(a_doc) = {} \/ (a_found # None /\ a_found[1].table = 0)))
        => /\ pc = "aborted"
           /\ a_r = 0
           /\ a_out = <<>>
           /\ a_file = None

\* the locator has run on a document whose tables have data rows and lack a
\* required header, and has located none
C11_Witness ==
    /\ pc = "aborted"
    /\ a_found # None /\ a_found[1].table = 0
    /\ Len(a_doc) = 2
    /\ Locatable(a_doc) = {}
    /\ \A t \in 1..Len(a_doc) : Len(a_doc[t]) >= 2 /\ HeaderSet(a_doc[t]) # {}

(***************************************************************************)
(* Claims about fetch_html (SpecFetch).                                    *)
(***************************************************************************)
PrimaryDenied == f_in.primary.kind = "response" /\ f_in.primary.status = Forbidden
PrimarySucceeds == f_in.primary.kind = "response" /\ f_in.primary.status = 200
FallbackHtml ==
    IF /\ f_in.api.kind = "response" /\ f_in.api.status = 200
       /\ f_in.api.json.valid /\ f_in.api.json.parse = "object"
       /\ f_in.api.json.text = "object" /\ f_in.api.json.star \notin {"absent", ""}
    THEN Some(f_in.api.json.star) ELSE None

\* C12: the parse request is made only when the page itself answered with the
\* refusal status; the text of the page is returned when the page request
\* succeeds; the HTML of the parse API is returned when the page is refused
\* and the API gives non-empty HTML; in every other case fetch_html raises
\* and returns nothing.
C12_FetchWithFallback ==
    f_out # None =>
        /\ f_out[1].api_called => PrimaryDenied
        /\ PrimarySucceeds =>
              ~f_out[1].raised /\ f_out[1].html = Some(f_in.primary.text)
              /\ ~f_out[1].api_called
        /\ (PrimaryDenied /\ FallbackHtml # None) =>
              ~f_out[1].raised /\ f_out[1].html = FallbackHtml /\ f_out[1].html # Some("")
        /\ (~PrimarySucceeds /\ ~(PrimaryDenied /\ FallbackHtml # None)) =>
              f_out[1].raised /\ f_out[1].html = None

\* a refused page whose HTML came from the parse API, asked for by the
\* unquoted title of the page
C12_Witness ==
    /\ f_out # None
    /\ PrimaryDenied
    /\ f_out[1].api_called
    /\ ~f_out[1].raised
    /\ f_out[1].html = Some(ParsedHtml)
    /\ f_out[1].page = <<"Anf(U+00ED)bios">>

(***************************************************************************)
(* Claims about the files run_group leaves behind (SpecGroup).             *)
(***************************************************************************)
\* C13: between the runs of run_group every file of the directory that
\* exists and is not empty holds the whole body of a response: no file that
\* the test of existence and size accepts is a truncated one.
C13_NoTruncatedFileAccepted ==
    pc \in {"start", "done", "aborted"} =>
        \A f \in DOMAIN g_files :
            ExistsNonEmpty(g_files, f) => g_files[f].len = "full"

====
